---- MODULE Spec2Model ----
(***************************************************************************)
(* A model of the EPUB CFI parser of src/src/parsers.rs and of the syntax  *)
(* tree of src/src/syntax.rs.                                              *)
(*                                                                         *)
(* A text is a sequence of one-character strings.  Every parser of the     *)
(* source is an operator from a text to a parse result, written the way    *)
(* the nom combinators it is built from compute it.  The state machine     *)
(* calls one parser on one text drawn from a bounded set of texts and      *)
(* records the parser, the text and the result.                            *)
(* A second specification, RunSpec, follows a call step by step through   *)
(* the combinators of the parser functions, with an explicit stack.        *)
(***************************************************************************)
EXTENDS Integers, Sequences, FiniteSets, TLC

VARIABLES
    parser,   \* the parser function that was called, "none" before the call
    input,    \* the text it was called on
    result,   \* the IResult it returned
    stack,    \* of a call run step by step: the combinators entered, innermost last
    ctl       \* of a call run step by step: what the run does next

vars == <<parser, input, result, stack, ctl>>

(***************************************************************************)
(* Bounds of the input texts.                                              *)
(***************************************************************************)
MaxStepNumber == 1024  \* step texts "/n" are drawn for n in 0..MaxStepNumber
MaxDigits == 3         \* length of the digit strings of bare assertion values
MaxParams == 2         \* number of key=value pairs of a rendered assertion
MaxSteps == 2          \* number of steps of a rendered local path

(***************************************************************************)
(* Characters.                                                             *)
(***************************************************************************)
DigitChars == {"0", "1", "2", "3", "4", "5", "6", "7", "8", "9"}

AlphaChars ==
    {"a", "b", "c", "d", "e", "f", "g", "h", "i", "j", "k", "l", "m",
     "n", "o", "p", "q", "r", "s", "t", "u", "v", "w", "x", "y", "z",
     "A", "B", "C", "D", "E", "F", "G", "H", "I", "J", "K", "L", "M",
     "N", "O", "P", "Q", "R", "S", "T", "U", "V", "W", "X", "Y", "Z"}

AlphanumericChars == AlphaChars \cup DigitChars

\* char::to_digit(10)
to_digit(c) ==
    CASE c = "0" -> 0 [] c = "1" -> 1 [] c = "2" -> 2 [] c = "3" -> 3
      [] c = "4" -> 4 [] c = "5" -> 5 [] c = "6" -> 6 [] c = "7" -> 7
      [] c = "8" -> 8 [] c = "9" -> 9

\* input.slice(n..)
Drop(s, n) == SubSeq(s, n + 1, Len(s))

\* input.slice(..n)
Take(s, n) == SubSeq(s, 1, n)

(***************************************************************************)
(* IResult<&str, T>: Ok((rest, val)), Err(Err::Error) or Err(Err::Failure).*)
(* Panic is the unwinding of the panic! of local_path.                     *)
(***************************************************************************)
Ok(rest, val) == [kind |-> "Ok", rest |-> rest, val |-> val]
Error == [kind |-> "Error"]
Failure == [kind |-> "Failure"]
Panic == [kind |-> "Panic"]
NotCalled == [kind |-> "None"]

IsOk(r) == r.kind = "Ok"

\* Option<T>: None is the empty sequence, Some(x) the sequence of x alone.
None == <<>>
Some(x) == <<x>>
IsSome(o) == Len(o) = 1
IsNone(o) == Len(o) = 0

(***************************************************************************)
(* Sequencing.  Let(v, K) is K applied to the value of v, computed once:   *)
(* the source's `let x = v;`.  Try(r, K) is the source's                   *)
(* `let (input, x) = r?;`: an Err returns at once, an Ok goes on with K.   *)
(***************************************************************************)
Let(v, K(_)) == CHOOSE y \in {K(x) : x \in {v}} : TRUE

Try(r, K(_)) == Let(r, LAMBDA x : IF IsOk(x) THEN K(x) ELSE x)

(***************************************************************************)
(* The nom primitives the parsers use.                                     *)
(***************************************************************************)
\* bytes::complete::tag
tag(t, s) ==
    IF Len(s) >= Len(t) /\ Take(s, Len(t)) = t
    THEN Ok(Drop(s, Len(t)), t)
    ELSE Error

\* the length of the longest run of characters of cs in s from position i + 1 on
RECURSIVE RunLen(_, _, _)
RunLen(s, i, cs) ==
    IF i >= Len(s) \/ s[i + 1] \notin cs THEN 0
    ELSE 1 + RunLen(s, i + 1, cs)

\* character::complete::digit1
digit1(s) ==
    Let(RunLen(s, 0, DigitChars),
        LAMBDA n : IF n = 0 THEN Error ELSE Ok(Drop(s, n), Take(s, n)))

\* character::complete::alphanumeric1
alphanumeric1(s) ==
    Let(RunLen(s, 0, AlphanumericChars),
        LAMBDA n : IF n = 0 THEN Error ELSE Ok(Drop(s, n), Take(s, n)))

\* combinator::opt applied to the result r of the inner parser on s
opt(r, s) ==
    Let(r, LAMBDA x : IF x.kind = "Error" THEN Ok(s, None)
                      ELSE IF IsOk(x) THEN Ok(x.rest, Some(x.val))
                      ELSE x)

\* combinator::map applied to the result r of the inner parser
map(r, F(_)) ==
    Let(r, LAMBDA x : IF IsOk(x) THEN Ok(x.rest, F(x.val)) ELSE x)

\* branch::alt of two parsers: r is the result of the first, next the second's
alt(r, next) ==
    Let(r, LAMBDA x : IF x.kind = "Error" THEN next ELSE x)

\* the largest value of a u8
U8_MAX == 255

\* character::complete::u8 with a wrapping accumulator, never an overflow error
RECURSIVE u8_wrapping_loop(_, _, _)
u8_wrapping_loop(s, pos, value) ==
    IF pos = Len(s) THEN Ok(<<>>, value)
    ELSE IF s[pos + 1] \notin DigitChars
         THEN (IF pos = 0 THEN Error ELSE Ok(Drop(s, pos), value))
         ELSE u8_wrapping_loop(s, pos + 1,
                               (value * 10 + to_digit(s[pos + 1])) % (U8_MAX + 1))

u8_wrapping(s) ==
    IF Len(s) = 0 THEN Error ELSE u8_wrapping_loop(s, 0, 0)

\* the loop of character::complete::u8: checked_mul(10) then checked_add(d)
RECURSIVE u8_loop(_, _, _)
u8_loop(s, pos, value) ==
    IF pos = Len(s) THEN Ok(<<>>, value)
    ELSE IF s[pos + 1] \notin DigitChars
         THEN (IF pos = 0 THEN Error ELSE Ok(Drop(s, pos), value))
         ELSE IF value * 10 > U8_MAX
                 \/ value * 10 + to_digit(s[pos + 1]) > U8_MAX
              THEN Error
              ELSE u8_loop(s, pos + 1, value * 10 + to_digit(s[pos + 1]))

\* character::complete::u8
u8(s) ==
    IF Len(s) = 0 THEN Error ELSE u8_loop(s, 0, 0)

(***************************************************************************)
(* Numbers.  A u32 does not fit the integers of the model checker, so a    *)
(* u32 value is its decimal numeral without leading zeros.  An f32 is the  *)
(* decimal value of its text, mantissa * 10^exponent with a mantissa that  *)
(* does not end in 0: two texts of the same value give the same f32.  No   *)
(* text of the model holds an "n", so the "nan", "inf" and "infinity"      *)
(* alternatives of nom's float never match and are left out.               *)
(***************************************************************************)
\* u32::MAX, 4294967295, as a numeral
U32_MAX == <<"4", "2", "9", "4", "9", "6", "7", "2", "9", "5">>

\* a > b for numerals of the same length, compared from position i on
RECURSIVE NumeralGreaterFrom(_, _, _)
NumeralGreaterFrom(a, b, i) ==
    IF i > Len(a) THEN FALSE
    ELSE IF to_digit(a[i]) # to_digit(b[i])
         THEN to_digit(a[i]) > to_digit(b[i])
         ELSE NumeralGreaterFrom(a, b, i + 1)

\* value.checked_mul(10).and_then(|v| v.checked_add(d)) is None
u32_overflows(numeral) ==
    \/ Len(numeral) > Len(U32_MAX)
    \/ Len(numeral) = Len(U32_MAX) /\ NumeralGreaterFrom(numeral, U32_MAX, 1)

\* value * 10 + d on numerals
u32_push(value, c) ==
    IF value = <<"0">> THEN <<c>> ELSE Append(value, c)

\* the loop of character::complete::u32
RECURSIVE u32_loop(_, _, _)
u32_loop(s, pos, value) ==
    IF pos = Len(s) THEN Ok(<<>>, value)
    ELSE IF s[pos + 1] \notin DigitChars
         THEN (IF pos = 0 THEN Error ELSE Ok(Drop(s, pos), value))
         ELSE Let(u32_push(value, s[pos + 1]),
                  LAMBDA v : IF u32_overflows(v) THEN Error
                             ELSE u32_loop(s, pos + 1, v))

\* character::complete::u32
u32(s) ==
    IF Len(s) = 0 THEN Error ELSE u32_loop(s, 0, <<"0">>)

\* the number the digits s[from..to] denote
RECURSIVE DigitsValue(_, _, _)
DigitsValue(s, from, to) ==
    IF to < from THEN 0
    ELSE DigitsValue(s, from, to - 1) * 10 + to_digit(s[to])

\* mantissa * 10^exponent without the trailing zeros of the mantissa
RECURSIVE Decimal_normal(_, _)
Decimal_normal(m, e) ==
    IF m = 0 THEN [m |-> 0, e |-> 0]
    ELSE IF m % 10 = 0 THEN Decimal_normal(m \div 10, e + 1)
    ELSE [m |-> m, e |-> e]

\* str::parse::<f32> of a text recognize_float accepted: sign, integer
\* digits, fraction digits, exponent
parse_to_f32(neg, int, frac, exp) ==
    Let(DigitsValue(int \o frac, 1, Len(int) + Len(frac)),
        LAMBDA m : Decimal_normal(IF neg THEN 0 - m ELSE m, exp - Len(frac)))

\* 1 when s holds one of the characters cs at position i + 1, else 0
CharLen(s, i, cs) == IF i < Len(s) /\ s[i + 1] \in cs THEN 1 ELSE 0

\* the exponent of recognize_float, from position i on:
\* opt(tuple((alt((char('e'), char('E'))), opt(alt((char('+'), char('-')))), cut(digit1))))
float_exponent(s, neg, int, frac, i) ==
    IF CharLen(s, i, {"e", "E"}) = 0
    THEN Ok(Drop(s, i), parse_to_f32(neg, int, frac, 0))
    ELSE Let(i + 1 + CharLen(s, i + 1, {"+", "-"}), LAMBDA j :
         Let(RunLen(s, j, DigitChars), LAMBDA ne :
             IF ne = 0 THEN Failure
             ELSE Let(DigitsValue(s, j + 1, j + ne), LAMBDA ev :
                  Ok(Drop(s, j + ne),
                     parse_to_f32(neg, int, frac,
                                  IF s[i + 2] = "-" THEN 0 - ev ELSE ev)))))

\* number::complete::float: recognize_float, then parse_to.  The mantissa is
\* alt((digit1, opt(pair(char('.'), opt(digit1)))), (char('.'), digit1))
float(s) ==
    Let(CharLen(s, 0, {"+", "-"}), LAMBDA n0 :
    Let(RunLen(s, n0, DigitChars), LAMBDA ni :
    Let(CharLen(s, n0 + ni, {"."}), LAMBDA dot :
    Let(IF dot = 1 THEN RunLen(s, n0 + ni + 1, DigitChars) ELSE 0, LAMBDA nf :
        IF ni = 0 /\ nf = 0 THEN Error
        ELSE float_exponent(s, n0 = 1 /\ s[1] = "-",
                            SubSeq(s, n0 + 1, n0 + ni),
                            SubSeq(s, n0 + ni + 2, n0 + ni + 1 + nf),
                            n0 + ni + dot + nf)))))

(***************************************************************************)
(* syntax.rs: the constructors of the syntax tree.                         *)
(***************************************************************************)
Assertion_new(parameters, value) ==
    [parameters |-> parameters, value |-> value]

Step_new(size, assertion) ==
    [size |-> size, assertion |-> assertion]

\* CharacterOffset::new(..).to_offset()
CharacterOffset_new(start_at_point, a) ==
    [variant |-> "Character", start_at_point |-> start_at_point,
     assertion |-> a]

\* SpatialOffset::new(..).to_offset()
SpatialOffset_new(start_at_point, end_at_point, a) ==
    [variant |-> "Spatial", start_at_point |-> start_at_point,
     end_at_point |-> end_at_point, assertion |-> a]

\* TemporalOffset::new(..).to_offset()
TemporalOffset_new(start_at, spatial_range, a) ==
    [variant |-> "Temporal", start_at |-> start_at,
     spatial_range |-> spatial_range, assertion |-> a]

LocalPath_new_with_redirected_path(steps, redirected_path) ==
    [steps |-> steps, redirected_path |-> Some(redirected_path),
     offset |-> None]

LocalPath_new_with_offset(steps, o) ==
    [steps |-> steps, redirected_path |-> None, offset |-> Some(o)]

RedirectedPath_new(o, p) == [offset |-> o, path |-> p]

Path_new(first, local) == [step |-> first, local_path |-> local]

Range_new(start_point, end_point) ==
    [start_point |-> start_point, end_point |-> end_point]

Fragment_new(p) == [path |-> p]

(***************************************************************************)
(* parsers.rs: assertions.                                                 *)
(***************************************************************************)
\* separated_pair(alphanumeric1, tag("="), alphanumeric1)
parameter(s) ==
    Try(alphanumeric1(s), LAMBDA k :
    Try(tag(<<"=">>, k.rest), LAMBDA e :
    Try(alphanumeric1(e.rest), LAMBDA v :
        Ok(v.rest, <<k.val, v.val>>))))

\* the loop of multi::separated_list1(tag(";"), parameter)
RECURSIVE parameter1_loop(_, _)
parameter1_loop(s, res) ==
    Let(tag(<<";">>, s), LAMBDA sep :
        IF sep.kind = "Error" THEN Ok(s, res)
        ELSE IF ~IsOk(sep) THEN sep
        ELSE IF Len(sep.rest) = Len(s) THEN Error
        ELSE Let(parameter(sep.rest), LAMBDA p :
                 IF p.kind = "Error" THEN Ok(s, res)
                 ELSE IF ~IsOk(p) THEN p
                 ELSE parameter1_loop(p.rest, Append(res, p.val))))

\* separated_list1(tag(";"), parameter)
parameter1(s) ==
    Try(parameter(s), LAMBDA p : parameter1_loop(p.rest, <<p.val>>))

\* alt without the bare digits alternative
params_or_value_params_only(s) ==
    map(parameter1(s), LAMBDA params : <<Some(params), None>>)

\* alt with the bare digits tried before the parameter list
params_or_value_digits_first(s) ==
    alt(map(digit1(s), LAMBDA value : <<None, Some(value)>>),
        map(parameter1(s), LAMBDA params : <<Some(params), None>>))

\* alt((map(parameter1, |params| (Some(params), None)),
\*      map(digit1, |value| (None, Some(value)))))
params_or_value(s) ==
    alt(map(parameter1(s), LAMBDA params : <<Some(params), None>>),
        map(digit1(s), LAMBDA value : <<None, Some(value)>>))

\* assertion that does not require the closing bracket after its content
assertion_unclosed(s) ==
    Try(tag(<<"[">>, s), LAMBDA open :
    Try(params_or_value(open.rest), LAMBDA pv :
    Let(tag(<<"]">>, pv.rest), LAMBDA close :
        Ok(IF IsOk(close) THEN close.rest ELSE pv.rest,
           Assertion_new(pv.val[1], pv.val[2])))))

\* delimited(tag("["), params_or_value, tag("]")), then Assertion::new
assertion(s) ==
    Try(tag(<<"[">>, s), LAMBDA open :
    Try(params_or_value(open.rest), LAMBDA pv :
    Try(tag(<<"]">>, pv.rest), LAMBDA close :
        Ok(close.rest, Assertion_new(pv.val[1], pv.val[2])))))

(***************************************************************************)
(* parsers.rs: offsets.                                                    *)
(***************************************************************************)
\* preceded(tag(":"), u32), opt(assertion)
character_offset(s) ==
    Try(tag(<<":">>, s), LAMBDA colon :
    Try(u32(colon.rest), LAMBDA point :
    Try(opt(assertion(point.rest), point.rest), LAMBDA a :
        Ok(a.rest, CharacterOffset_new(point.val, a.val)))))

\* preceded(tag("@"), separated_pair(float, tag(":"), opt(float))), opt(assertion)
spatial_offset(s) ==
    Try(tag(<<"@">>, s), LAMBDA at :
    Try(float(at.rest), LAMBDA start :
    Try(tag(<<":">>, start.rest), LAMBDA colon :
    Try(opt(float(colon.rest), colon.rest), LAMBDA end :
    Try(opt(assertion(end.rest), end.rest), LAMBDA a :
        Ok(a.rest, SpatialOffset_new(start.val, end.val, a.val)))))))

\* preceded(tag("@"), separated_pair(float, tag(":"), float))
spatial_range(s) ==
    Try(tag(<<"@">>, s), LAMBDA at :
    Try(float(at.rest), LAMBDA start :
    Try(tag(<<":">>, start.rest), LAMBDA colon :
    Try(float(colon.rest), LAMBDA end :
        Ok(end.rest, <<start.val, end.val>>)))))

\* temporal_offset that takes the "@" of a spatial offset for its prefix too
temporal_offset_at_sign(s) ==
    Try(alt(tag(<<"~">>, s), tag(<<"@">>, s)), LAMBDA tilde :
    Try(float(tilde.rest), LAMBDA at :
    Try(opt(spatial_range(at.rest), at.rest), LAMBDA sr :
    Try(opt(assertion(sr.rest), sr.rest), LAMBDA a :
        Ok(a.rest, TemporalOffset_new(at.val, sr.val, a.val))))))

\* preceded(tag("~"), float), opt(the spatial range), opt(assertion)
temporal_offset(s) ==
    Try(tag(<<"~">>, s), LAMBDA tilde :
    Try(float(tilde.rest), LAMBDA at :
    Try(opt(spatial_range(at.rest), at.rest), LAMBDA sr :
    Try(opt(assertion(sr.rest), sr.rest), LAMBDA a :
        Ok(a.rest, TemporalOffset_new(at.val, sr.val, a.val))))))

\* alt((temporal_offset, spatial_offset, character_offset))
offset(s) ==
    alt(temporal_offset(s), alt(spatial_offset(s), character_offset(s)))

(***************************************************************************)
(* parsers.rs: steps and paths.                                            *)
(***************************************************************************)
\* preceded(tag("/"), u8), opt(assertion), Step::new
step(s) ==
    Try(tag(<<"/">>, s), LAMBDA slash :
    Try(u8(slash.rest), LAMBDA step_size :
    Try(opt(assertion(step_size.rest), step_size.rest), LAMBDA a :
        Ok(a.rest, Step_new(step_size.val, a.val)))))

\* the loop of multi::many1(step)
RECURSIVE many1_step_loop(_, _)
many1_step_loop(s, acc) ==
    Let(step(s), LAMBDA r :
        IF r.kind = "Error" THEN Ok(s, acc)
        ELSE IF ~IsOk(r) THEN r
        ELSE IF Len(r.rest) = Len(s) THEN Error
        ELSE many1_step_loop(r.rest, Append(acc, r.val)))

\* multi::many0(step): no step at all is accepted
many0_step(s) == many1_step_loop(s, <<>>)

\* many1(step)
many1_step(s) ==
    Try(step(s), LAMBDA r : many1_step_loop(r.rest, <<r.val>>))

RECURSIVE local_path(_), local_path_tail(_), redirected_path(_),
          path_or_offset(_), path(_)

\* the tail alternatives in the other order: opt(offset) before redirected_path
local_path_tail_offset_first(s) ==
    alt(map(opt(offset(s), s), LAMBDA o : <<None, o>>),
        map(redirected_path(s), LAMBDA p : <<Some(p), None>>))

\* alt((map(redirected_path, |p| (Some(p), None)), map(opt(offset), |o| (None, o))))
local_path_tail(s) ==
    alt(map(redirected_path(s), LAMBDA p : <<Some(p), None>>),
        map(opt(offset(s), s), LAMBDA o : <<None, o>>))

\* many1(step), the tail, then the match on the tail
local_path(s) ==
    Try(many1_step(s), LAMBDA steps :
    Try(local_path_tail(steps.rest), LAMBDA other :
        IF IsSome(other.val[1]) /\ IsNone(other.val[2])
        THEN Ok(other.rest,
                LocalPath_new_with_redirected_path(steps.val, other.val[1][1]))
        ELSE IF IsNone(other.val[1])
        THEN Ok(other.rest, LocalPath_new_with_offset(steps.val, other.val[2]))
        ELSE Panic))

\* preceded(tag("!"), path_or_offset), RedirectedPath::new(offset, path)
redirected_path(s) ==
    Try(tag(<<"!">>, s), LAMBDA bang :
    Try(path_or_offset(bang.rest), LAMBDA po :
        Ok(po.rest, RedirectedPath_new(po.val[2], po.val[1]))))

\* the alternatives made optional: neither a path nor an offset is accepted
path_or_offset_neither(s) ==
    alt(map(path(s), LAMBDA p : <<Some(p), None>>),
        alt(map(offset(s), LAMBDA o : <<None, Some(o)>>),
            Ok(s, <<None, None>>)))

\* alt((map(path, |p| (Some(p), None)), map(offset, |o| (None, Some(o)))))
path_or_offset(s) ==
    alt(map(path(s), LAMBDA p : <<Some(p), None>>),
        map(offset(s), LAMBDA o : <<None, Some(o)>>))

\* tuple((step, local_path)), Path::new
path(s) ==
    Try(step(s), LAMBDA first :
    Try(local_path(first.rest), LAMBDA local :
        Ok(local.rest, Path_new(first.val, local.val))))

\* preceded(tag(","), separated_pair(local_path, tag(","), local_path)), Range::new
range(s) ==
    Try(tag(<<",">>, s), LAMBDA c1 :
    Try(local_path(c1.rest), LAMBDA start :
    Try(tag(<<",">>, start.rest), LAMBDA c2 :
    Try(local_path(c2.rest), LAMBDA end :
        Ok(end.rest, Range_new(start.val, end.val))))))

\* fragment without the closing parenthesis required
fragment_unclosed(s) ==
    Try(tag(<<"e", "p", "u", "b", "c", "f", "i">>, s), LAMBDA name :
    Try(tag(<<"(">>, name.rest), LAMBDA open :
    Try(path(open.rest), LAMBDA p :
    Let(tag(<<")">>, p.rest), LAMBDA close :
        Ok(IF IsOk(close) THEN close.rest ELSE p.rest, Fragment_new(p.val))))))

\* preceded(tag("epubcfi"), delimited(tag("("), path, tag(")"))), Fragment::new
fragment(s) ==
    Try(tag(<<"e", "p", "u", "b", "c", "f", "i">>, s), LAMBDA name :
    Try(tag(<<"(">>, name.rest), LAMBDA open :
    Try(path(open.rest), LAMBDA p :
    Try(tag(<<")">>, p.rest), LAMBDA close :
        Ok(close.rest, Fragment_new(p.val))))))

(***************************************************************************)
(* The texts the parsers are called on.  Texts are written from known      *)
(* syntax trees (a text case is a text with the tree it is written from),  *)
(* and every text is joined by the texts one edit away from a well-formed  *)
(* one: a character deleted, inserted or replaced.                         *)
(***************************************************************************)
\* the texts in order, one after the other
RECURSIVE Flatten(_)
Flatten(ts) == IF ts = <<>> THEN <<>> ELSE Head(ts) \o Flatten(Tail(ts))

\* the decimal digits of n, without leading zeros
RECURSIVE Decimal(_)
Decimal(n) ==
    LET d == <<"0", "1", "2", "3", "4", "5", "6", "7", "8", "9">>[(n % 10) + 1]
    IN  IF n < 10 THEN <<d>> ELSE Append(Decimal(n \div 10), d)

\* the strings of 1..n characters of cs
RECURSIVE Strings(_, _)
Strings(cs, n) ==
    IF n = 0 THEN {}
    ELSE {<<c>> : c \in cs}
         \cup {Append(t, c) : t \in Strings(cs, n - 1), c \in cs}

\* the sequences of 1..n elements of S
SeqsUpTo(S, n) == UNION {[1..k -> S] : k \in 1..n}

Deletions(t) == {Take(t, i - 1) \o Drop(t, i) : i \in 1..Len(t)}
Insertions(t, cs) ==
    {Take(t, i) \o <<c>> \o Drop(t, i) : i \in 0..Len(t), c \in cs}
Substitutions(t, cs) ==
    {[t EXCEPT ![i] = c] : i \in 1..Len(t), c \in cs}

\* the texts of S and those one edit away from one of them
Edits(S, cs) ==
    S \cup UNION {Deletions(t) \cup Insertions(t, cs) \cup Substitutions(t, cs)
                  : t \in S}

\* what may follow a text without continuing it
Trailers == {<<>>, <<")">>, <<",">>, <<"x">>}

WithTrailers(S) == {t \o x : t \in S, x \in Trailers}

\* ---- assertions ----
Keys == {<<"a">>, <<"1">>, <<"1", "k">>, <<"k", "1">>}
Vals == {<<"b">>, <<"2">>, <<"2", "v">>}

\* key=value lists of 1..MaxParams pairs
ParamLists == SeqsUpTo(Keys \X Vals, MaxParams)

RenderParam(kv) == kv[1] \o <<"=">> \o kv[2]

RECURSIVE RenderParams(_)
RenderParams(ps) ==
    IF Len(ps) = 1 THEN RenderParam(ps[1])
    ELSE RenderParam(Head(ps)) \o <<";">> \o RenderParams(Tail(ps))

\* digit strings of 1..MaxDigits digits, leading zeros included
BareValues == Strings({"0", "2", "7"}, MaxDigits)

Bracketed(content) == <<"[">> \o content \o <<"]">>

AssertionEditChars == {"[", "]", "=", ";", "a", "1", "/"}

AssertionContents ==
    {RenderParams(ps) : ps \in ParamLists} \cup BareValues

\* contents that neither alternative matches to their end
MalformedContents ==
    {<<>>,
     <<"a", "=", "b", ";">>,
     <<"a", "=">>,
     <<"a">>,
     <<"=", "b">>,
     <<"1", "2", "a">>,
     <<"1", "=">>,
     <<"1", ";", "2">>,
     <<"a", "=", "b", ";", ";", "1", "=", "2">>,
     <<"a", "=", "b", "=", "c">>,
     <<"a", "=", "b", ";", "1">>,
     <<"2", ".", "5">>}

AssertionEditBase ==
    {<<"[", "a", "=", "b", "]">>,
     <<"[", "1", "=", "2", ";", "a", "=", "b", "]">>,
     <<"[", "1", "2", "]">>,
     <<"[", "1", "k", "=", "2", "v", "]">>}

AssertionInputs ==
    WithTrailers({Bracketed(c) : c \in AssertionContents \cup MalformedContents})
    \cup {<<"[">> \o c : c \in AssertionContents \cup MalformedContents}
    \cup Edits(AssertionEditBase, AssertionEditChars)

ContentInputs ==
    AssertionContents \cup MalformedContents
    \cup {Drop(t, 1) : t \in Edits(AssertionEditBase, AssertionEditChars) \ {<<>>}}

\* ---- steps ----
StepCases ==
    <<[text |-> <<"/", "6">>, ast |-> Step_new(6, None)],
      [text |-> <<"/", "4", "[", "2", "]">>,
       ast |-> Step_new(4, Some(Assertion_new(None, Some(<<"2">>))))],
      [text |-> <<"/", "2", "[", "a", "=", "b", "]">>,
       ast |-> Step_new(2, Some(Assertion_new(
                   Some(<< <<(<<"a">>), (<<"b">>)>> >>), None)))],
      [text |-> <<"/", "1", "4">>, ast |-> Step_new(14, None)]>>

StepEditChars == {"/", "2", "[", "]", "=", "a", "!", ":"}

StepInputs ==
    {<<"/">> \o Decimal(n) : n \in 0..MaxStepNumber}
    \cup {<<"/", "0">> \o Decimal(n) : n \in 0..MaxStepNumber}
    \cup WithTrailers({StepCases[i].text : i \in 1..Len(StepCases)})
    \cup Edits({StepCases[i].text : i \in 1..Len(StepCases)}, StepEditChars)

\* ---- offsets ----
OffsetCases ==
    <<[text |-> <<":", "5">>, ast |-> CharacterOffset_new(<<"5">>, None)],
      [text |-> <<"~", "3", ".", "7">>,
       ast |-> TemporalOffset_new([m |-> 37, e |-> -1], None, None)],
      [text |-> <<"@", "2", ".", "5", ":", "5", ".", "3">>,
       ast |-> SpatialOffset_new([m |-> 25, e |-> -1],
                                 Some([m |-> 53, e |-> -1]), None)],
      [text |-> <<":", "1", "0", "[", "8", "]">>,
       ast |-> CharacterOffset_new(<<"1", "0">>,
                   Some(Assertion_new(None, Some(<<"8">>))))],
      [text |-> <<"@", "2", ":">>,
       ast |-> SpatialOffset_new([m |-> 2, e |-> 0], None, None)],
      [text |-> <<"~", "2", "@", "0", ".", "5", ":", "1", ".", "5",
                  "[", "a", "=", "b", "]">>,
       ast |-> TemporalOffset_new([m |-> 2, e |-> 0],
                   Some(<<[m |-> 5, e |-> -1], [m |-> 15, e |-> -1]>>),
                   Some(Assertion_new(
                       Some(<< <<(<<"a">>), (<<"b">>)>> >>), None)))]>>

OffsetTexts == {OffsetCases[i].text : i \in 1..Len(OffsetCases)}

OffsetEditChars == {":", "@", "~", ".", "2", "e", "-", "[", "/"}

\* character offsets at the edge of a u32
U32EdgeTexts ==
    {<<":">> \o U32_MAX,
     <<":", "0", "0">> \o U32_MAX,
     <<":", "4", "2", "9", "4", "9", "6", "7", "2", "9", "6">>,
     <<":", "1", "0", "0", "0", "0", "0", "0", "0", "0", "0", "0">>}

OffsetInputs ==
    WithTrailers(OffsetTexts) \cup Edits(OffsetTexts, OffsetEditChars)
    \cup U32EdgeTexts

\* ---- paths: the steps and offsets path texts are written from ----
PathStepIx == {1, 2}
PathOffsetIx == {1, 2}

\* no offset (0) or one of the offsets
PathTailIx == {0} \cup PathOffsetIx

StepIxSeqs == SeqsUpTo(PathStepIx, MaxSteps)

StepsText(ss) == Flatten([i \in 1..Len(ss) |-> StepCases[ss[i]].text])
StepsAst(ss) == [i \in 1..Len(ss) |-> StepCases[ss[i]].ast]

TailText(o) == IF o = 0 THEN <<>> ELSE OffsetCases[o].text
TailAst(o) == IF o = 0 THEN None ELSE Some(OffsetCases[o].ast)

\* a local path that ends in an optional offset: steps ss, tail o
PlainLocalText(ss, o) == StepsText(ss) \o TailText(o)
PlainLocalAst(ss, o) == LocalPath_new_with_offset(StepsAst(ss), TailAst(o))

\* a path that ends in an optional offset: first step f, steps ss, tail o
PlainPathText(f, ss, o) == StepCases[f].text \o PlainLocalText(ss, o)
PlainPathAst(f, ss, o) == Path_new(StepCases[f].ast, PlainLocalAst(ss, o))

PlainLocalTexts == {PlainLocalText(ss, o) : ss \in StepIxSeqs, o \in PathTailIx}

PlainPathTexts ==
    {PlainPathText(f, ss, o) : f \in PathStepIx, ss \in StepIxSeqs, o \in PathTailIx}

\* "!" and a path or an offset
RedirectedTexts ==
    {<<"!">> \o t : t \in PlainPathTexts \cup {TailText(o) : o \in PathOffsetIx}}

\* "!" and one step alone, with an optional offset
OneStepRedirectedTexts ==
    {<<"!">> \o StepCases[f].text \o TailText(o) : f \in PathStepIx, o \in PathTailIx}

RedirectingLocalTexts ==
    {StepsText(ss) \o r : ss \in StepIxSeqs, r \in RedirectedTexts}

OneStepRedirectingLocalTexts ==
    {StepsText(ss) \o r : ss \in StepIxSeqs, r \in OneStepRedirectedTexts}

RedirectingPathTexts ==
    {StepCases[f].text \o t : f \in PathStepIx, t \in RedirectingLocalTexts}

PathEditChars == {"/", "6", "!", ":", "[", ")", ","}

LocalPathEditBase ==
    {<<"/", "6", "/", "2">>,
     <<"/", "2", ":", "5">>,
     <<"/", "2", "!", "/", "4", "/", "1", ":", "5">>,
     <<"/", "2", "!", ":", "5">>}

\* the examples of the documentation of LocalPath
LocalPathDocTexts ==
    {<<"/", "4", "/", "2">>,
     <<"/", "4", "/", "2", ":", "5">>,
     <<"/", "3", "/", "2", "!", "/", "5">>,
     <<"/", "4", "[", "l", "a", "n", "g", "=", "e", "n", "]", "/", "2", ":", "1", "0">>,
     <<"/", "6", "/", "1", "@", "3", ".", "5", ":", "7", ".", "2">>}

\* the examples of the documentation of RedirectedPath
RedirectedPathDocTexts ==
    {<<"!", "/", "4", "/", "2">>,
     <<"!", "/", "4", ":", "1", "5">>,
     <<"!", "/", "3", "[", "l", "a", "n", "g", "=", "f", "r", "]", "/", "1", ":", "1", "0">>}

\* a tail with no step before it: an offset, or "!" and a path or an offset
ZeroStepLocalTexts == OffsetTexts \cup RedirectedTexts

LocalPathInputs ==
    WithTrailers(PlainLocalTexts \cup RedirectingLocalTexts
                 \cup OneStepRedirectingLocalTexts)
    \cup WithTrailers(ZeroStepLocalTexts)
    \cup {<<>>, <<"x">>, <<"!">>, <<":">>}
    \cup Edits(LocalPathEditBase, PathEditChars)
    \cup LocalPathDocTexts

\* "!" followed by neither a path nor an offset
RedirectedNeitherTexts ==
    {<<"!">>, <<"!", "x">>, <<"!", "!", "/", "6", "/", "6">>, <<"!", "/">>,
     <<"!", ":">>, <<"!", "@", "2">>, <<"!", "~">>, <<"!", "[", "2", "]">>,
     <<"!", "/", "2", "5", "6", "/", "2">>, <<"!", ")">>,
     <<"/", "6", "/", "6">>, <<":", "5">>, <<>>}

RedirectedPathInputs ==
    WithTrailers(RedirectedTexts \cup OneStepRedirectedTexts)
    \cup WithTrailers({<<"!">> \o t : t \in OffsetTexts})
    \cup {<<"!">> \o t : t \in RedirectingPathTexts}
    \cup RedirectedNeitherTexts
    \cup Edits({<<"!">> \o t : t \in LocalPathEditBase}, PathEditChars)
    \cup RedirectedPathDocTexts

PathOrOffsetInputs ==
    WithTrailers(PlainPathTexts \cup OffsetTexts)
    \cup {StepCases[f].text \o TailText(o) : f \in PathStepIx, o \in PathTailIx}
    \cup Edits(LocalPathEditBase, PathEditChars)

PathInputs ==
    WithTrailers(PlainPathTexts \cup RedirectingPathTexts)
    \cup {StepCases[f].text \o TailText(o) : f \in PathStepIx, o \in PathTailIx}
    \cup Edits(LocalPathEditBase, PathEditChars)

\* ---- ranges ----
RangeText(a, b) == <<",">> \o a \o <<",">> \o b

RangeTexts == {RangeText(a, b) : a \in PlainLocalTexts, b \in PlainLocalTexts}

\* ranges between one-step local paths
ShortRangeTexts ==
    {RangeText(PlainLocalText(<<f>>, o), PlainLocalText(<<g>>, q))
     : f \in PathStepIx, g \in PathStepIx, o \in PathTailIx, q \in PathTailIx}

RangeEditBase ==
    {<<",", "/", "6", "/", "4", ",", "/", "6", "/", "1", "4">>,
     <<",", "/", "2", ":", "5", ",", "/", "4">>}

RangeInputs ==
    WithTrailers(RangeTexts) \cup Edits(RangeEditBase, PathEditChars)

\* ---- fragments ----
FragmentOpen == <<"e", "p", "u", "b", "c", "f", "i", "(">>

FragmentText(body) == FragmentOpen \o body \o <<")">>

\* what may stand between a path and the end of the text or the ")"
Remainders ==
    {<<"x">>, <<"[", "]">>, <<"[", "a", "=", "]">>, <<"/", "2", "5", "6">>,
     <<"!">>, <<"/">>}

FragmentEditBase ==
    {FragmentText(<<"/", "6", "/", "2">>),
     FragmentText(<<"/", "6", "/", "2", "!", "/", "4", "/", "1", ":", "5">>)}

FragmentInputs ==
    WithTrailers({FragmentText(t) : t \in PlainPathTexts \cup RedirectingPathTexts})
    \cup {FragmentOpen \o t : t \in PlainPathTexts \cup RedirectingPathTexts}
    \cup {FragmentOpen \o t \o r \o c
          : t \in PlainPathTexts, r \in Remainders, c \in {<<>>, <<")">>}}
    \cup {FragmentText(t \o r) : t \in PlainPathTexts, r \in ShortRangeTexts}
    \cup {FragmentText(StepCases[f].text \o TailText(o))
          : f \in PathStepIx, o \in PathTailIx}
    \cup Edits(FragmentEditBase, PathEditChars \cup {"e", "("})
    \cup PlainPathTexts

\* ---- what a run that is followed step by step does next ----
\* no call is being run step by step
Idle == [mode |-> "idle", e |-> <<>>, kind |-> "", pos |-> 0]

(***************************************************************************)
(* The state machine: one call of one parser on one text.                  *)
(***************************************************************************)
Init ==
    /\ parser = "none"
    /\ input = <<>>
    /\ result = NotCalled
    /\ stack = <<>>
    /\ ctl = Idle

Call_parameter ==
    /\ parser = "none"
    /\ \E s \in ContentInputs :
          /\ parser' = "parameter"
          /\ input' = s
          /\ result' = parameter(s)
    /\ UNCHANGED <<stack, ctl>>

Call_parameter1 ==
    /\ parser = "none"
    /\ \E s \in ContentInputs :
          /\ parser' = "parameter1"
          /\ input' = s
          /\ result' = parameter1(s)
    /\ UNCHANGED <<stack, ctl>>

Call_params_or_value ==
    /\ parser = "none"
    /\ \E s \in ContentInputs :
          /\ parser' = "params_or_value"
          /\ input' = s
          /\ result' = params_or_value(s)
    /\ UNCHANGED <<stack, ctl>>

Call_assertion ==
    /\ parser = "none"
    /\ \E s \in AssertionInputs :
          /\ parser' = "assertion"
          /\ input' = s
          /\ result' = assertion(s)
    /\ UNCHANGED <<stack, ctl>>

Call_character_offset ==
    /\ parser = "none"
    /\ \E s \in OffsetInputs :
          /\ parser' = "character_offset"
          /\ input' = s
          /\ result' = character_offset(s)
    /\ UNCHANGED <<stack, ctl>>

Call_spatial_offset ==
    /\ parser = "none"
    /\ \E s \in OffsetInputs :
          /\ parser' = "spatial_offset"
          /\ input' = s
          /\ result' = spatial_offset(s)
    /\ UNCHANGED <<stack, ctl>>

Call_temporal_offset ==
    /\ parser = "none"
    /\ \E s \in OffsetInputs :
          /\ parser' = "temporal_offset"
          /\ input' = s
          /\ result' = temporal_offset(s)
    /\ UNCHANGED <<stack, ctl>>

Call_offset ==
    /\ parser = "none"
    /\ \E s \in OffsetInputs :
          /\ parser' = "offset"
          /\ input' = s
          /\ result' = offset(s)
    /\ UNCHANGED <<stack, ctl>>

Call_step ==
    /\ parser = "none"
    /\ \E s \in StepInputs :
          /\ parser' = "step"
          /\ input' = s
          /\ result' = step(s)
    /\ UNCHANGED <<stack, ctl>>

Call_local_path ==
    /\ parser = "none"
    /\ \E s \in LocalPathInputs :
          /\ parser' = "local_path"
          /\ input' = s
          /\ result' = local_path(s)
    /\ UNCHANGED <<stack, ctl>>

Call_redirected_path ==
    /\ parser = "none"
    /\ \E s \in RedirectedPathInputs :
          /\ parser' = "redirected_path"
          /\ input' = s
          /\ result' = redirected_path(s)
    /\ UNCHANGED <<stack, ctl>>

Call_path_or_offset ==
    /\ parser = "none"
    /\ \E s \in PathOrOffsetInputs :
          /\ parser' = "path_or_offset"
          /\ input' = s
          /\ result' = path_or_offset(s)
    /\ UNCHANGED <<stack, ctl>>

Call_path ==
    /\ parser = "none"
    /\ \E s \in PathInputs :
          /\ parser' = "path"
          /\ input' = s
          /\ result' = path(s)
    /\ UNCHANGED <<stack, ctl>>

Call_range ==
    /\ parser = "none"
    /\ \E s \in RangeInputs :
          /\ parser' = "range"
          /\ input' = s
          /\ result' = range(s)
    /\ UNCHANGED <<stack, ctl>>

Call_fragment ==
    /\ parser = "none"
    /\ \E s \in FragmentInputs :
          /\ parser' = "fragment"
          /\ input' = s
          /\ result' = fragment(s)
    /\ UNCHANGED <<stack, ctl>>

Next ==
    \/ Call_parameter
    \/ Call_parameter1
    \/ Call_params_or_value
    \/ Call_assertion
    \/ Call_character_offset
    \/ Call_spatial_offset
    \/ Call_temporal_offset
    \/ Call_offset
    \/ Call_step
    \/ Call_local_path
    \/ Call_redirected_path
    \/ Call_path_or_offset
    \/ Call_path
    \/ Call_range
    \/ Call_fragment

Spec == Init /\ [][Next]_vars

(***************************************************************************)
(* A call followed step by step.                                           *)
(*                                                                         *)
(* Each parser function is the nom combinators it is written from, and a   *)
(* call runs as the combinators run: entering a combinator pushes it on    *)
(* the stack, a nested parser returns to the combinator on top, and        *)
(* calling a function pushes a frame for the call.  The run follows        *)
(* positions only: how much of the text is consumed, and whether the       *)
(* parser ended in Ok, Error or Failure.  The leaves (tag, u8, u32, float, *)
(* digit1, alphanumeric1) run as one step.                                 *)
(***************************************************************************)
MaxStack == 64          \* frames the run may push
MaxRedirections == 2    \* redirections nested in a run's path texts

\* ---- the combinators ----
Tag(t) == <<"tag", t>>
Prim(name) == <<"prim", name>>
Tuple(es) == <<"tuple", es>>
Alt(es) == <<"alt", es>>
Opt(e) == <<"opt", <<e>> >>
Many1(e) == <<"many1", <<e>> >>
SeparatedList1(sep, e) == <<"separated_list1", <<sep, e>> >>
Call(fn) == <<"call", fn>>

\* ---- the parser functions as combinators ----
parameter_combinators ==
    Tuple(<<Prim("alphanumeric1"), Tag(<<"=">>), Prim("alphanumeric1")>>)

parameter1_combinators == SeparatedList1(Tag(<<";">>), Call("parameter"))

params_or_value_combinators == Alt(<<Call("parameter1"), Prim("digit1")>>)

assertion_combinators ==
    Tuple(<<Tag(<<"[">>), Call("params_or_value"), Tag(<<"]">>)>>)

character_offset_combinators ==
    Tuple(<<Tag(<<":">>), Prim("u32"), Opt(Call("assertion"))>>)

spatial_offset_combinators ==
    Tuple(<<Tag(<<"@">>), Prim("float"), Tag(<<":">>), Opt(Prim("float")),
            Opt(Call("assertion"))>>)

temporal_offset_combinators ==
    Tuple(<<Tag(<<"~">>), Prim("float"),
            Opt(Tuple(<<Tag(<<"@">>), Prim("float"), Tag(<<":">>), Prim("float")>>)),
            Opt(Call("assertion"))>>)

offset_combinators ==
    Alt(<<Call("temporal_offset"), Call("spatial_offset"),
          Call("character_offset")>>)

step_combinators ==
    Tuple(<<Tag(<<"/">>), Prim("u8"), Opt(Call("assertion"))>>)

local_path_combinators ==
    Tuple(<<Many1(Call("step")),
            Alt(<<Call("redirected_path"), Opt(Call("offset"))>>)>>)

redirected_path_combinators == Tuple(<<Tag(<<"!">>), Call("path_or_offset")>>)

path_or_offset_combinators == Alt(<<Call("path"), Call("offset")>>)

\* a path that may begin with a path: path = path step | step local_path
path_combinators_left_recursive ==
    Alt(<<Tuple(<<Call("path"), Call("step")>>),
          Tuple(<<Call("step"), Call("local_path")>>)>>)

path_combinators == Tuple(<<Call("step"), Call("local_path")>>)

range_combinators ==
    Tuple(<<Tag(<<",">>), Call("local_path"), Tag(<<",">>), Call("local_path")>>)

fragment_combinators ==
    Tuple(<<Tag(<<"e", "p", "u", "b", "c", "f", "i">>), Tag(<<"(">>),
            Call("path"), Tag(<<")">>)>>)

Parsers ==
    {"parameter", "parameter1", "params_or_value", "assertion",
     "character_offset", "spatial_offset", "temporal_offset", "offset",
     "step", "local_path", "redirected_path", "path_or_offset", "path",
     "range", "fragment"}

\* the body of the function fn
CombinatorsOf(fn) ==
    CASE fn = "parameter" -> parameter_combinators
      [] fn = "parameter1" -> parameter1_combinators
      [] fn = "params_or_value" -> params_or_value_combinators
      [] fn = "assertion" -> assertion_combinators
      [] fn = "character_offset" -> character_offset_combinators
      [] fn = "spatial_offset" -> spatial_offset_combinators
      [] fn = "temporal_offset" -> temporal_offset_combinators
      [] fn = "offset" -> offset_combinators
      [] fn = "step" -> step_combinators
      [] fn = "local_path" -> local_path_combinators
      [] fn = "redirected_path" -> redirected_path_combinators
      [] fn = "path_or_offset" -> path_or_offset_combinators
      [] fn = "path" -> path_combinators
      [] fn = "range" -> range_combinators
      [] fn = "fragment" -> fragment_combinators

\* what the function fn returns on the text s
Apply(fn, s) ==
    CASE fn = "parameter" -> parameter(s)
      [] fn = "parameter1" -> parameter1(s)
      [] fn = "params_or_value" -> params_or_value(s)
      [] fn = "assertion" -> assertion(s)
      [] fn = "character_offset" -> character_offset(s)
      [] fn = "spatial_offset" -> spatial_offset(s)
      [] fn = "temporal_offset" -> temporal_offset(s)
      [] fn = "offset" -> offset(s)
      [] fn = "step" -> step(s)
      [] fn = "local_path" -> local_path(s)
      [] fn = "redirected_path" -> redirected_path(s)
      [] fn = "path_or_offset" -> path_or_offset(s)
      [] fn = "path" -> path(s)
      [] fn = "range" -> range(s)
      [] fn = "fragment" -> fragment(s)

\* what the leaf e returns on the text s
LeafResult(e, s) ==
    IF e[1] = "tag" THEN tag(e[2], s)
    ELSE CASE e[2] = "u8" -> u8(s)
           [] e[2] = "u32" -> u32(s)
           [] e[2] = "float" -> float(s)
           [] e[2] = "digit1" -> digit1(s)
           [] e[2] = "alphanumeric1" -> alphanumeric1(s)

\* ---- the control of a run ----
\* the parser e is to run at position pos
ToCall(e, pos) == [mode |-> "call", e |-> e, kind |-> "", pos |-> pos]

\* a parser has returned: Ok with the text consumed up to pos, or an error
ToReturn(kind, pos) == [mode |-> "ret", e |-> <<>>, kind |-> kind, pos |-> pos]

\* the call has returned to its caller
Done(kind, pos) == [mode |-> "done", e |-> <<>>, kind |-> kind, pos |-> pos]

\* the frame of the combinator e entered at position at: i is the parser of e
\* that runs (for the repetitions, the phase of the loop), cur the position
\* the running iteration began at
Frame(e, at) == [e |-> e, at |-> at, i |-> 1, cur |-> at]

Top == stack[Len(stack)]
Pop == SubSeq(stack, 1, Len(stack) - 1)
ReplaceTop(f) == [stack EXCEPT ![Len(stack)] = f]

\* ---- the texts of the runs ----
\* paths with k redirections nested, each ending in a path or an offset
RECURSIVE NestedPathTexts(_)
NestedPathTexts(k) ==
    IF k = 0
    THEN {PlainPathText(1, <<g>>, o) : g \in PathStepIx, o \in PathTailIx}
    ELSE {h \o <<"!">> \o t
          : h \in {StepsText(<<1, 2>>), StepsText(<<3, 1>>)},
            t \in NestedPathTexts(k - 1) \cup {TailText(1)}}

RunPathTexts ==
    UNION {NestedPathTexts(k) : k \in 0..MaxRedirections}
    \cup {StepsText(<<1, 1>>) \o <<"!">> \o StepsText(<<2, 1>>) \o <<"!">>
          \o StepsText(<<1, 1>>)
          \o Bracketed(RenderParams(<< <<(<<"a">>), (<<"b">>)>>,
                                       <<(<<"1", "k">>), (<<"2", "v">>)>> >>))}

RunContentTexts ==
    MalformedContents \cup BareValues
    \cup {RenderParams(ps)
          : ps \in SeqsUpTo({<<(<<"a">>), (<<"b">>)>>,
                             <<(<<"1", "k">>), (<<"2", "v">>)>>}, MaxParams)}

RunAssertionTexts ==
    {Bracketed(c) : c \in RunContentTexts}
    \cup {<<"[">> \o c : c \in RunContentTexts}

RunOffsetTexts ==
    OffsetTexts \cup U32EdgeTexts
    \cup {<<"~", "2", "e">>, <<"@", "2", "e", ":">>, <<":">>, <<"x">>, <<>>}

\* the texts the function fn is run on
RunInputs(fn) ==
    CASE fn \in {"parameter", "parameter1", "params_or_value"} ->
             RunContentTexts
      [] fn = "assertion" -> RunAssertionTexts
      [] fn \in {"character_offset", "spatial_offset", "temporal_offset",
                 "offset"} -> RunOffsetTexts
      [] fn = "step" ->
             {StepCases[i].text : i \in 1..Len(StepCases)}
             \cup {<<"/">>, <<"/", "2", "5", "6">>, <<"/", "6", "[", "]">>, <<>>}
      [] fn = "local_path" ->
             LocalPathDocTexts \cup ZeroStepLocalTexts
             \cup Edits(LocalPathEditBase, {"/", "!", ":"})
      [] fn = "redirected_path" ->
             {<<"!">> \o t : t \in RunPathTexts}
             \cup RedirectedNeitherTexts \cup RedirectedPathDocTexts
             \cup OneStepRedirectedTexts
      [] fn = "path_or_offset" -> NestedPathTexts(1) \cup RunOffsetTexts
      [] fn = "path" ->
             RunPathTexts
             \cup {t \o <<"~", "2", "e">> : t \in NestedPathTexts(1)}
      [] fn = "range" -> ShortRangeTexts \cup Edits(RangeEditBase, {",", "/"})
      [] fn = "fragment" ->
             {FragmentText(t) : t \in RunPathTexts}
             \cup {FragmentOpen \o t : t \in NestedPathTexts(1)}
             \cup Edits(FragmentEditBase, {"/", "!", "(", ")"})

\* ---- the steps of a run ----
\* the function fn is called on the text s
Start ==
    /\ parser = "none"
    /\ ctl.mode = "idle"
    /\ \E fn \in Parsers : \E s \in RunInputs(fn) :
          /\ parser' = fn
          /\ input' = s
          /\ ctl' = ToCall(Call(fn), 0)
    /\ UNCHANGED <<result, stack>>

\* a leaf runs: it consumes a prefix of the remaining text or fails
EnterLeaf ==
    /\ ctl.mode = "call"
    /\ ctl.e[1] \in {"tag", "prim"}
    /\ ctl' = Let(LeafResult(ctl.e, Drop(input, ctl.pos)), LAMBDA r :
                 IF IsOk(r) THEN ToReturn("Ok", Len(input) - Len(r.rest))
                 ELSE ToReturn(r.kind, ctl.pos))
    /\ UNCHANGED <<parser, input, result, stack>>

\* a combinator is entered and its first parser is to run
EnterCombinator ==
    /\ ctl.mode = "call"
    /\ ctl.e[1] \in {"tuple", "alt", "opt", "many1", "separated_list1"}
    /\ Len(stack) < MaxStack
    /\ stack' = Append(stack, Frame(ctl.e, ctl.pos))
    /\ ctl' = ToCall(IF ctl.e[1] = "separated_list1" THEN ctl.e[2][2]
                     ELSE ctl.e[2][1], ctl.pos)
    /\ UNCHANGED <<parser, input, result>>

\* a parser function is called and its body is to run
EnterFunction ==
    /\ ctl.mode = "call"
    /\ ctl.e[1] = "call"
    /\ Len(stack) < MaxStack
    /\ stack' = Append(stack, Frame(ctl.e, ctl.pos))
    /\ ctl' = ToCall(CombinatorsOf(ctl.e[2]), ctl.pos)
    /\ UNCHANGED <<parser, input, result>>

\* tuple, preceded, delimited, separated_pair and the ? of the function
\* bodies: the next parser runs where the last one ended, an error ends it
ReturnTuple ==
    /\ ctl.mode = "ret"
    /\ stack # <<>>
    /\ Top.e[1] = "tuple"
    /\ IF ctl.kind = "Ok" /\ Top.i < Len(Top.e[2])
       THEN /\ stack' = ReplaceTop([Top EXCEPT !.i = @ + 1])
            /\ ctl' = ToCall(Top.e[2][Top.i + 1], ctl.pos)
       ELSE /\ stack' = Pop
            /\ ctl' = ctl
    /\ UNCHANGED <<parser, input, result>>

\* alt: on an Error the next alternative runs from where alt was entered
ReturnAlt ==
    /\ ctl.mode = "ret"
    /\ stack # <<>>
    /\ Top.e[1] = "alt"
    /\ IF ctl.kind = "Error" /\ Top.i < Len(Top.e[2])
       THEN /\ stack' = ReplaceTop([Top EXCEPT !.i = @ + 1])
            /\ ctl' = ToCall(Top.e[2][Top.i + 1], Top.at)
       ELSE /\ stack' = Pop
            /\ ctl' = ctl
    /\ UNCHANGED <<parser, input, result>>

\* opt: an Error is Ok with nothing consumed
ReturnOpt ==
    /\ ctl.mode = "ret"
    /\ stack # <<>>
    /\ Top.e[1] = "opt"
    /\ stack' = Pop
    /\ ctl' = IF ctl.kind = "Error" THEN ToReturn("Ok", Top.at) ELSE ctl
    /\ UNCHANGED <<parser, input, result>>

\* many1: the first parse must succeed (i = 1); then the parser runs again
\* (i = 2) until it fails, and an iteration that consumes nothing is an Error
ReturnMany1 ==
    /\ ctl.mode = "ret"
    /\ stack # <<>>
    /\ Top.e[1] = "many1"
    /\ IF ctl.kind = "Ok" /\ (Top.i = 1 \/ ctl.pos # Top.cur)
       THEN /\ stack' = ReplaceTop([Top EXCEPT !.i = 2, !.cur = ctl.pos])
            /\ ctl' = ToCall(Top.e[2][1], ctl.pos)
       ELSE /\ stack' = Pop
            /\ ctl' = IF ctl.kind = "Ok" THEN ToReturn("Error", Top.cur)
                      ELSE IF ctl.kind = "Error" /\ Top.i = 2
                      THEN ToReturn("Ok", Top.cur)
                      ELSE ctl
    /\ UNCHANGED <<parser, input, result>>

\* separated_list1: the first element (i = 1), then a separator (i = 2) and
\* an element (i = 3) again and again; an Error of either ends the list where
\* the last element ended, a separator that consumes nothing is an Error
ReturnSeparatedList1 ==
    /\ ctl.mode = "ret"
    /\ stack # <<>>
    /\ Top.e[1] = "separated_list1"
    /\ IF ctl.kind = "Ok" /\ Top.i \in {1, 3}
       THEN /\ stack' = ReplaceTop([Top EXCEPT !.i = 2, !.cur = ctl.pos])
            /\ ctl' = ToCall(Top.e[2][1], ctl.pos)
       ELSE IF ctl.kind = "Ok" /\ ctl.pos # Top.cur
       THEN /\ stack' = ReplaceTop([Top EXCEPT !.i = 3])
            /\ ctl' = ToCall(Top.e[2][2], ctl.pos)
       ELSE /\ stack' = Pop
            /\ ctl' = IF ctl.kind = "Ok" THEN ToReturn("Error", Top.cur)
                      ELSE IF ctl.kind = "Error" /\ Top.i \in {2, 3}
                      THEN ToReturn("Ok", Top.cur)
                      ELSE ctl
    /\ UNCHANGED <<parser, input, result>>

\* the body of a function has ended: the function returns what it returned
ReturnFunction ==
    /\ ctl.mode = "ret"
    /\ stack # <<>>
    /\ Top.e[1] = "call"
    /\ stack' = Pop
    /\ ctl' = ctl
    /\ UNCHANGED <<parser, input, result>>

\* the function that was called returns to its caller
Finish ==
    /\ ctl.mode = "ret"
    /\ stack = <<>>
    /\ result' = IF ctl.kind = "Ok"
                 THEN [kind |-> "Ok", rest |-> Drop(input, ctl.pos)]
                 ELSE [kind |-> ctl.kind]
    /\ ctl' = Done(ctl.kind, ctl.pos)
    /\ UNCHANGED <<parser, input, stack>>

RunNext ==
    \/ Start
    \/ EnterLeaf
    \/ EnterCombinator
    \/ EnterFunction
    \/ ReturnTuple
    \/ ReturnAlt
    \/ ReturnOpt
    \/ ReturnMany1
    \/ ReturnSeparatedList1
    \/ ReturnFunction
    \/ Finish

\* a call is sequential code that runs until it returns: a step that can be
\* taken is taken
RunSpec == Init /\ [][RunNext]_vars /\ WF_vars(RunNext)

(***************************************************************************)
(* The claims.                                                             *)
(***************************************************************************)
\* the part of the input a successful call consumed
Consumed == Take(input, Len(input) - Len(result.rest))

\* C1: the fragment entry point fully consumes or fails: a call of fragment
\* returns an error or a Fragment with no input left, so a well-formed
\* epubcfi(<path>) followed by more characters is never a successful parse.
C1_FragmentFullyConsumesOrFails ==
    (parser = "fragment" /\ IsOk(result)) => result.rest = <<>>

\* the texts "/" and the decimal digits of n, with n
StepNumberCases == {<<(<<"/">> \o Decimal(n)), n>> : n \in 0..MaxStepNumber}

\* C2: for n in 0..255 step on "/" and the decimal digits of n returns
\* Step{size: n, assertion: None} with no input left; for n > 255 it fails.
C2_StepSizeIsU8 ==
    parser = "step" =>
        \A c \in StepNumberCases :
            input = c[1] =>
                IF c[2] <= 255
                THEN result = Ok(<<>>, Step_new(c[2], None))
                ELSE ~IsOk(result)

C2_Witness ==
    /\ parser = "step"
    /\ input = <<"/", "2", "5", "5">>
    /\ result = Ok(<<>>, Step_new(255, None))

\* the texts "[k1=v1;k2=v2;...]" with the list of pairs they are written from
ParamCases == {<<Bracketed(RenderParams(ps)), ps>> : ps \in ParamLists}

\* C3: assertion on "[k=v]" and on "[k1=v1;k2=v2;...]" returns the parameter
\* list with the pairs in the order of the text and no bare value, also when
\* keys and values begin with digits or are digits only.
C3_ParametersInInputOrder ==
    parser = "assertion" =>
        \A c \in ParamCases :
            input = c[1] => result = Ok(<<>>, Assertion_new(Some(c[2]), None))

C3_Witness ==
    /\ parser = "assertion"
    /\ input = <<"[", "1", "=", "2", ";", "a", "=", "b", "]">>
    /\ IsOk(result)
    /\ Len(result.val.parameters[1]) = 2

\* the assertions of a syntax tree, in a sequence
AssertionsOfOption(o) == IF IsSome(o) THEN o[1].assertion ELSE <<>>

RECURSIVE AssertionsOfSteps(_)
AssertionsOfSteps(steps) ==
    IF steps = <<>> THEN <<>>
    ELSE Head(steps).assertion \o AssertionsOfSteps(Tail(steps))

RECURSIVE AssertionsOfLocalPath(_), AssertionsOfPath(_)
AssertionsOfLocalPath(lp) ==
    AssertionsOfSteps(lp.steps)
    \o (IF IsSome(lp.offset) THEN AssertionsOfOption(lp.offset[1]) ELSE <<>>)
    \o (IF IsSome(lp.redirected_path)
        THEN AssertionsOfOption(lp.redirected_path[1].offset)
             \o (IF IsSome(lp.redirected_path[1].path)
                 THEN AssertionsOfPath(lp.redirected_path[1].path[1])
                 ELSE <<>>)
        ELSE <<>>)

AssertionsOfPath(p) == p.step.assertion \o AssertionsOfLocalPath(p.local_path)

AssertionsOfResult ==
    IF ~IsOk(result) THEN <<>>
    ELSE CASE parser = "assertion" -> <<result.val>>
           [] parser = "step" -> result.val.assertion
           [] parser \in {"character_offset", "spatial_offset",
                          "temporal_offset", "offset"} -> result.val.assertion
           [] parser = "local_path" -> AssertionsOfLocalPath(result.val)
           [] parser = "redirected_path" ->
                  AssertionsOfOption(result.val.offset)
                  \o (IF IsSome(result.val.path)
                      THEN AssertionsOfPath(result.val.path[1]) ELSE <<>>)
           [] parser = "path_or_offset" ->
                  AssertionsOfOption(result.val[2])
                  \o (IF IsSome(result.val[1])
                      THEN AssertionsOfPath(result.val[1][1]) ELSE <<>>)
           [] parser = "path" -> AssertionsOfPath(result.val)
           [] parser = "range" ->
                  AssertionsOfLocalPath(result.val.start_point)
                  \o AssertionsOfLocalPath(result.val.end_point)
           [] parser = "fragment" -> AssertionsOfPath(result.val.path)
           [] OTHER -> <<>>

\* C4: assertion on "[" d "]" for a digit string d returns the bare value d
\* and no parameters; every Assertion a parser returns has exactly one of
\* parameters and value.
C4_BareValueAndExactlyOne ==
    /\ parser = "assertion" =>
           \A d \in BareValues :
               input = Bracketed(d) =>
                   result = Ok(<<>>, Assertion_new(None, Some(d)))
    /\ \A i \in 1..Len(AssertionsOfResult) :
           IsSome(AssertionsOfResult[i].parameters)
               # IsSome(AssertionsOfResult[i].value)

C4_Witness ==
    /\ parser = "assertion"
    /\ input = <<"[", "0", "7", "]">>
    /\ result = Ok(<<>>, Assertion_new(None, Some(<<"0", "7">>)))

\* the content an Assertion is written from
RenderAssertion(a) ==
    IF IsSome(a.parameters) THEN RenderParams(a.parameters[1]) ELSE a.value[1]

\* C5: assertion fails on "[]" and on every bracketed text whose content
\* neither alternative matches up to the closing "]", and on a text with no
\* "]"; an Assertion it returns is built from the whole content of the bracket.
C5_AssertionMatchesWholeContent ==
    parser = "assertion" =>
        /\ input = <<"[", "]">> => ~IsOk(result)
        /\ \A c \in MalformedContents, x \in Trailers :
               input = Bracketed(c) \o x => ~IsOk(result)
        /\ (\A i \in 1..Len(input) : input[i] # "]") => ~IsOk(result)
        /\ IsOk(result) => Consumed = Bracketed(RenderAssertion(result.val))

C5_Witness ==
    /\ parser = "assertion"
    /\ input = <<"[", "a", "=", "b", ";", "]">>
    /\ result = Error

\* C6: fragment fails on every text without the closing ")" directly after
\* the parsed path: a text that ends after a well-formed path, and a text
\* where something no parser takes stands between the path and the ")".  A
\* failure is an error alone, without a Fragment.
C6_FragmentRequiresClosingParenthesis ==
    parser = "fragment" =>
        /\ \A t \in PlainPathTexts \cup RedirectingPathTexts :
               input = FragmentOpen \o t => ~IsOk(result)
        /\ \A t \in PlainPathTexts, r \in Remainders, c \in {<<>>, <<")">>} :
               input = FragmentOpen \o t \o r \o c => ~IsOk(result)
        /\ (\A i \in 1..Len(input) : input[i] # ")") => ~IsOk(result)
        /\ IsOk(result) => Consumed[Len(Consumed)] = ")"
        /\ ~IsOk(result) => result = Error

C6_Witness ==
    /\ parser = "fragment"
    /\ input = FragmentOpen \o <<"/", "6", "/", "6", "/", "2", "5", "6", ")">>
    /\ result = Error

\* the texts of a path, then a range, between "epubcfi(" and ")"
FragmentWithRangeTexts ==
    {FragmentText(t \o r) : t \in PlainPathTexts, r \in ShortRangeTexts}

\* the range texts with the Range they are written from
RangeCases ==
    {<<RangeText(PlainLocalText(ss, o), PlainLocalText(ts, q)),
       Range_new(PlainLocalAst(ss, o), PlainLocalAst(ts, q))>>
     : ss \in StepIxSeqs, ts \in StepIxSeqs, o \in PathTailIx, q \in PathTailIx}

\* C7: the fragment grammar is "epubcfi(" path [range] ")": a well-formed path
\* followed by a well-formed range before the ")" parses as a Fragment, and
\* range returns the Range of the two local paths in the order of the text.
C7_FragmentAcceptsRange ==
    /\ parser = "fragment" =>
           (input \in FragmentWithRangeTexts => IsOk(result))
    /\ parser = "range" =>
           \A c \in RangeCases : input = c[1] => result = Ok(<<>>, c[2])

\* the local path texts that redirect into a path, with what follows them and
\* the LocalPath they are written from
RedirectingLocalCases ==
    {<<StepsText(ss) \o <<"!">> \o PlainPathText(f, ns, o) \o x, x,
       LocalPath_new_with_redirected_path(
           StepsAst(ss),
           RedirectedPath_new(None, Some(PlainPathAst(f, ns, o))))>>
     : ss \in StepIxSeqs, f \in PathStepIx, ns \in StepIxSeqs,
       o \in PathTailIx, x \in Trailers}

\* C8: local_path tries the redirection before the offset: steps followed by
\* "!" and a well-formed path give the LocalPath of those steps in order, with
\* a RedirectedPath that holds the nested Path and no offset, and no offset of
\* its own; the text is consumed up to the end of the nested path.
C8_LocalPathRedirectsFirst ==
    parser = "local_path" =>
        \A c \in RedirectingLocalCases :
            input = c[1] => result = Ok(c[2], c[3])

C8_Witness ==
    /\ parser = "local_path"
    /\ input = <<"/", "6", "!", "/", "4", "[", "2", "]", "/", "6", ":", "5">>
    /\ IsOk(result)
    /\ result.rest = <<>>
    /\ IsSome(result.val.redirected_path)
    /\ IsSome(result.val.redirected_path[1].path[1].local_path.offset[1])

\* C9: a redirection may target a single step, as in the documented examples
\* !/4:15 and /3/2!/5: redirected_path on "!" step [offset] succeeds and
\* consumes the text, and local_path on steps "!" step consumes the text and
\* returns a LocalPath with a redirected path.
C9_RedirectionToOneStep ==
    /\ parser = "redirected_path" =>
           (input \in OneStepRedirectedTexts \cup {<<"!", "/", "4", ":", "1", "5">>}
               => IsOk(result) /\ result.rest = <<>>)
    /\ parser = "local_path" =>
           (input \in OneStepRedirectingLocalTexts
                      \cup {<<"/", "3", "/", "2", "!", "/", "5">>}
               => /\ IsOk(result)
                  /\ result.rest = <<>>
                  /\ IsSome(result.val.redirected_path))

\* the local paths of a syntax tree, in a sequence
RECURSIVE LocalPathsOfLocalPath(_)
LocalPathsOfLocalPath(lp) ==
    <<lp>>
    \o (IF IsSome(lp.redirected_path) /\ IsSome(lp.redirected_path[1].path)
        THEN LocalPathsOfLocalPath(lp.redirected_path[1].path[1].local_path)
        ELSE <<>>)

LocalPathsOfResult ==
    IF ~IsOk(result) THEN <<>>
    ELSE CASE parser = "local_path" -> LocalPathsOfLocalPath(result.val)
           [] parser = "redirected_path" ->
                  IF IsSome(result.val.path)
                  THEN LocalPathsOfLocalPath(result.val.path[1].local_path)
                  ELSE <<>>
           [] parser = "path_or_offset" ->
                  IF IsSome(result.val[1])
                  THEN LocalPathsOfLocalPath(result.val[1][1].local_path)
                  ELSE <<>>
           [] parser = "path" -> LocalPathsOfLocalPath(result.val.local_path)
           [] parser = "range" ->
                  LocalPathsOfLocalPath(result.val.start_point)
                  \o LocalPathsOfLocalPath(result.val.end_point)
           [] parser = "fragment" ->
                  LocalPathsOfLocalPath(result.val.path.local_path)
           [] OTHER -> <<>>

RedirectedPathsOfResult ==
    (IF parser = "redirected_path" /\ IsOk(result) THEN <<result.val>> ELSE <<>>)
    \o Flatten([i \in 1..Len(LocalPathsOfResult) |->
                   IF IsSome(LocalPathsOfResult[i].redirected_path)
                   THEN <<LocalPathsOfResult[i].redirected_path[1]>>
                   ELSE <<>>])

\* "!" and a well-formed offset or path, the text after it, the RedirectedPath
RedirectedCases ==
    {<<(<<"!">> \o OffsetCases[i].text \o x), x,
       [offset |-> Some(OffsetCases[i].ast), path |-> None]>>
     : i \in 1..Len(OffsetCases), x \in Trailers}
    \cup
    {<<(<<"!">> \o PlainPathText(f, ns, o) \o x), x,
       [offset |-> None, path |-> Some(PlainPathAst(f, ns, o))]>>
     : f \in PathStepIx, ns \in StepIxSeqs, o \in PathTailIx, x \in Trailers}

OffsetDiscriminators == {":", "@", "~"}

\* C11: every RedirectedPath has exactly one of {offset, path}: in every
\* result of every parser each RedirectedPath has one of the two present and
\* the other absent; redirected_path on "!" and a well-formed offset gives the
\* offset and no path, on "!" and a well-formed path gives the path and no
\* offset; and it fails on a text without the "!", on "!" followed by a
\* character that starts neither a step nor an offset, and on "!" followed by
\* a text that neither path nor offset accepts.
C11_RedirectedPathExactlyOne ==
    /\ \A i \in 1..Len(RedirectedPathsOfResult) :
           IsSome(RedirectedPathsOfResult[i].offset)
               # IsSome(RedirectedPathsOfResult[i].path)
    /\ parser = "redirected_path" =>
           /\ \A c \in RedirectedCases : input = c[1] => result = Ok(c[2], c[3])
           /\ (Len(input) = 0 \/ input[1] # "!") => ~IsOk(result)
           /\ (Len(input) = 1
               \/ (Len(input) > 1
                   /\ input[2] \notin OffsetDiscriminators \cup {"/"}))
                  => ~IsOk(result)
           /\ (Len(input) >= 1 /\ input[1] = "!"
               /\ ~IsOk(path(Tail(input))) /\ ~IsOk(offset(Tail(input))))
                  => ~IsOk(result)

C11_Witness ==
    /\ parser = "redirected_path"
    /\ input = <<"!">> \o OffsetCases[3].text
    /\ IsOk(result)
    /\ result.rest = <<>>
    /\ IsSome(result.val.offset)
    /\ result.val.offset[1].variant = "Spatial"
    /\ IsNone(result.val.path)

\* the results of the three offset parsers on the input of the call
OffsetResults ==
    <<temporal_offset(input), spatial_offset(input), character_offset(input)>>

\* the orders the three alternatives can be tried in
OffsetOrders ==
    {<<1, 2, 3>>, <<1, 3, 2>>, <<2, 1, 3>>, <<2, 3, 1>>, <<3, 1, 2>>, <<3, 2, 1>>}

\* alt over the three alternatives tried in the order o
offset_in_order(o) ==
    alt(OffsetResults[o[1]], alt(OffsetResults[o[2]], OffsetResults[o[3]]))

\* the variant each discriminator announces
VariantOf(c) ==
    IF c = "~" THEN "Temporal" ELSE IF c = "@" THEN "Spatial" ELSE "Character"

\* C12: the discriminators of the three offset parsers are mutually
\* exclusive: on the text of any call at most one of temporal_offset,
\* spatial_offset and character_offset succeeds, offset gives there what the
\* three alternatives give in every order (the same Offset and the same
\* remaining text, or the same failure), an Offset it returns is of the
\* variant of the first character, and it fails on a text that starts with
\* none of "~", "@", ":".
C12_OffsetDiscriminatorsExclusive ==
    parser # "none" =>
        /\ Cardinality({i \in 1..3 : IsOk(OffsetResults[i])}) <= 1
        /\ \A o \in OffsetOrders : offset_in_order(o) = offset(input)
        /\ IsOk(offset(input)) =>
               offset(input).val.variant = VariantOf(input[1])
        /\ (Len(input) = 0 \/ input[1] \notin OffsetDiscriminators)
               => ~IsOk(offset(input))
        /\ parser = "offset" => result = offset(input)

C12_Witness ==
    /\ parser = "offset"
    /\ input = OffsetCases[6].text
    /\ IsOk(result)
    /\ result.rest = <<>>
    /\ result.val.variant = "Temporal"
    /\ IsSome(result.val.spatial_range)
    /\ IsOk(OffsetResults[1])
    /\ ~IsOk(OffsetResults[2])
    /\ ~IsOk(OffsetResults[3])

\* a tail with no step before it, the text after it, the LocalPath of no
\* steps and that tail
ZeroStepLocalCases ==
    {<<(OffsetCases[i].text \o x), x,
       [steps |-> <<>>, redirected_path |-> None,
        offset |-> Some(Some(OffsetCases[i].ast))]>>
     : i \in 1..Len(OffsetCases), x \in Trailers}
    \cup
    {<<(<<"!">> \o PlainPathText(f, ns, o) \o x), x,
       [steps |-> <<>>,
        redirected_path |->
            Some([offset |-> None, path |-> Some(PlainPathAst(f, ns, o))]),
        offset |-> None]>>
     : f \in PathStepIx, ns \in StepIxSeqs, o \in PathTailIx, x \in Trailers}

\* C13: local_path fails only if there is no step and no valid tail: on a
\* text with no step that begins with a well-formed offset or a well-formed
\* redirected path, local_path returns the LocalPath with an empty step list
\* and that tail, and leaves the text after the tail.
C13_ZeroStepLocalPathAccepted ==
    parser = "local_path" =>
        \A c \in ZeroStepLocalCases : input = c[1] => result = Ok(c[2], c[3])

\* the frames of the calls of path that have not returned, outermost first
PathFrames == SelectSeq(stack, LAMBDA f : f.e[1] = "call" /\ f.e[2] = "path")

\* a call of path inside a call of path starts further in the text, just
\* after the "!" of a redirection that follows the steps of the outer path
RunPathsShrink ==
    \A i \in 2..Len(PathFrames) :
        /\ PathFrames[i].at > PathFrames[i - 1].at
        /\ input[PathFrames[i].at] = "!"
        /\ input[PathFrames[i - 1].at + 1] = "/"

\* an iteration of many1 or of separated_list1 that succeeds has consumed
RunRepetitionsConsume ==
    (ctl.mode = "ret" /\ ctl.kind = "Ok" /\ stack # <<>>
     /\ Top.e[1] \in {"many1", "separated_list1"})
        => ctl.pos > Top.cur

\* the calls of path nested in one another are no more than the characters
\* of the text, and the run never needs more frames than it may push
RunDepthBounded ==
    /\ Len(PathFrames) <= Len(input) + 1
    /\ \A i \in 1..Len(stack) : stack[i].at <= Len(input)
    /\ Len(stack) < MaxStack

\* the run returns what the function returns: the same kind of result and the
\* same remaining text
RunAgrees ==
    ctl.mode = "done" =>
        /\ result.kind = Apply(parser, input).kind
        /\ result.kind = "Ok" => result.rest = Apply(parser, input).rest

\* C14: parsing terminates on every text: every call run step by step
\* returns; while it runs, a call of path nested in a call of path starts
\* after the "!" of a redirection, further in the text than the outer one,
\* every iteration of a repetition (many1 of step, the separated list of
\* parameters) consumes at least one character, the nesting of path is
\* bounded by the length of the text, and the run returns what the parser
\* function returns.
C14_ParsingTerminates ==
    /\ [](RunPathsShrink /\ RunRepetitionsConsume /\ RunDepthBounded /\ RunAgrees)
    /\ <>(ctl.mode = "done")

C14_Witness ==
    /\ parser = "path"
    /\ Len(PathFrames) = 3
    /\ ctl.mode = "ret"
    /\ ctl.kind = "Ok"
    /\ Top.e[1] = "separated_list1"
    /\ Top.i = 3

====
